---- MODULE Spec2Model ----
(***************************************************************************)
(* A model of refield, the CouchDB field renamer.                          *)
(*                                                                         *)
(*   args.rs / main.rs  parse_args   path validation of --old / --new      *)
(*   rename.rs          rename_nested_field   the recursive renamer        *)
(*   fetch.rs           FetchDocument         the paginated _find scan     *)
(*   main.rs            main                  the driver                   *)
(*                                                                         *)
(* Strings that the program splits are sequences of one-character strings  *)
(* ("a.b" is <<"a", ".", "b">>); object keys are such sequences too.       *)
(* A JSON value is a record [kind, val]: kind "obj" with val a function    *)
(* from keys to values, kind "arr" with val a sequence of values, kind     *)
(* "num" with val a number (any node that is neither object nor array).    *)
(***************************************************************************)
EXTENDS Integers, Sequences, FiniteSets, TLC

VARIABLES
    \* parse_args
    old_field,       \* Args.old_field, the --old string
    new_field,       \* Args.new_field, the --new string
    args_result,     \* parse_args: "none" before the call, then "ok" or the error
    \* rename_nested_field
    doc,             \* the document rename_nested_field works on (&mut Value)
    doc0,            \* the document before the first call
    old_field_path,  \* the old_field_path slice handed to rename_nested_field
    calls,           \* the calls made so far: [doc, renamed] after each, in order
    \* main
    pc,              \* where main is: "start", an await point, or "returned"
    dry_run,         \* Args.dry_run
    net,             \* the HTTP requests sent so far, in order
    out,             \* the lines printed so far (stdout and stderr), in order
    documents,       \* the Vec<Value> fetch_documents returned
    di,              \* the index of the next document of the for loop
    exit_status,     \* the exit status of the process once main has returned
    updates,         \* the update_document calls that returned: [di, outcome, result]
    \* FetchDocument
    fstate,          \* where execute is: an await point, "done" or "panicked"
    limit,           \* self.limit, a usize
    bookmark,        \* self.bookmark, an Option<String>
    is_partitioned,  \* self.is_partitioned
    doc_count,       \* self.doc_count
    count,           \* the iteration counter of execute
    total_record,    \* the records fetched so far
    requests,        \* the requests sent so far, in order
    responses,       \* the _find answers received so far, in order
    handled,         \* the documents the callback was called with, in order
    progress,        \* the "Fetched ..." lines printed so far
    stored,          \* the number of documents of the table (the store's state)
    \* the store
    metadata         \* the body the store answered the metadata GET with, <<>> before

argsVars == <<old_field, new_field, args_result>>
renameVars == <<doc, doc0, old_field_path, calls>>
mainVars == <<pc, dry_run, net, out, documents, di, exit_status, updates>>

fetchVars == <<fstate, limit, bookmark, is_partitioned, doc_count, count, total_record,
               requests, responses, handled, progress, stored>>

vars == <<argsVars, renameVars, mainVars, fetchVars, metadata>>

\* the parts of the state a specification does not use stay as they start
RenameIdle == /\ doc = <<>>
              /\ doc0 = <<>>
              /\ old_field_path = <<>>
              /\ calls = <<>>

MainIdle == /\ pc = "idle"
            /\ dry_run = FALSE
            /\ net = <<>>
            /\ out = <<>>
            /\ documents = <<>>
            /\ di = 0
            /\ exit_status = -1
            /\ updates = <<>>

FetchIdle == /\ fstate = "idle"
             /\ limit = 0
             /\ bookmark = <<>>
             /\ is_partitioned = FALSE
             /\ doc_count = 0
             /\ count = 0
             /\ total_record = 0
             /\ requests = <<>>
             /\ responses = <<>>
             /\ handled = <<>>
             /\ progress = <<>>
             /\ stored = 0

(***************************************************************************)
(* Bounds                                                                  *)
(***************************************************************************)
MaxStrLen == 3      \* longest enumerated --old / --new string
MaxArrLen == 2      \* longest enumerated JSON array
MaxPathLen == 3     \* longest enumerated field path
MaxCalls == 2       \* successive calls of rename_nested_field on one document
MaxDocs == 2        \* most documents the store returns to main
MaxStored == 4      \* most documents of the table FetchDocument scans
MaxLimit == 3       \* largest low part of an enumerated --limit
MaxLimitHi == 2     \* largest high part (multiple of 2^31) of an enumerated --limit
MaxPages == 6       \* _find answers delivered in one run

(***************************************************************************)
(* Strings                                                                 *)
(***************************************************************************)
Dot == "."

Last(s) == s[Len(s)]

RECURSIVE IndexOfDot(_, _)
\* the first index >= i of s holding '.', or 0
IndexOfDot(s, i) ==
    IF i > Len(s) THEN 0
    ELSE IF s[i] = Dot THEN i
    ELSE IndexOfDot(s, i + 1)

RECURSIVE Split(_)
\* str::split('.').collect(): always at least one segment, empty ones kept
Split(s) ==
    LET i == IndexOfDot(s, 1) IN
    IF i = 0 THEN <<s>>
    ELSE <<SubSeq(s, 1, i - 1)>> \o Split(SubSeq(s, i + 1, Len(s)))

RECURSIVE Join(_)
\* the dotted string of a non-empty segment sequence
Join(p) ==
    IF Len(p) = 1 THEN p[1]
    ELSE p[1] \o <<Dot>> \o Join(Tail(p))

\* slice[..len - 1]
ButLast(p) == SubSeq(p, 1, Len(p) - 1)

(***************************************************************************)
(* parse_args: the validation of the two paths                             *)
(***************************************************************************)
ParseArgsMutPrefix(old, new) ==
    LET old_path == Split(old)
        new_path == Split(new)
    IN  IF Len(old_path) # Len(new_path) THEN "err_depth"
        ELSE IF Len(old_path) > 1 /\ old_path[1] # new_path[1] THEN "err_parent"
        ELSE "ok"

\* the Result of parse_args on (--old, --new)
ParseArgsResult(old, new) ==
    LET old_path == Split(old)
        new_path == Split(new)
    IN  IF Len(old_path) # Len(new_path) THEN "err_depth"
        ELSE IF ButLast(old_path) # ButLast(new_path) THEN "err_parent"
        ELSE "ok"

(***************************************************************************)
(* JSON values                                                             *)
(***************************************************************************)
Num(n) == [kind |-> "num", val |-> n]
Obj(f) == [kind |-> "obj", val |-> f]
Arr(s) == [kind |-> "arr", val |-> s]
Str(s) == [kind |-> "str", val |-> s]
Null == [kind |-> "null", val |-> 0]
Bool(b) == [kind |-> "bool", val |-> b]

\* value[key] of serde_json: Null when the value is no object or lacks the key
JsonIndex(v, k) == IF v.kind = "obj" /\ k \in DOMAIN v.val THEN v.val[k] ELSE Null
\* Value::as_str as an Option
NoneStr == "<none>"
AsStr(v) == IF v.kind = "str" THEN v.val ELSE NoneStr
\* Value::as_bool().unwrap_or(false)
AsBoolOrFalse(v) == v.kind = "bool" /\ v.val
\* Value::as_u64().unwrap_or(0)
AsU64OrZero(v) == IF v.kind = "num" /\ v.val >= 0 THEN v.val ELSE 0

\* Map::remove
MapRemove(m, k) == [x \in (DOMAIN m) \ {k} |-> m[x]]
\* Map::insert (replaces the value of a key already present)
MapInsert(m, k, v) == [x \in (DOMAIN m) \cup {k} |-> IF x = k THEN v ELSE m[x]]

(***************************************************************************)
(* rename_nested_field.  The result is [doc, renamed]: the document after  *)
(* the call and the returned bool.                                         *)
(***************************************************************************)
RenameBaseMutKeepOld(m, current_key, new_field_arg) ==
    MapInsert(m, Last(Split(new_field_arg)), m[current_key])

RenameBaseMutNoOverwrite(m, current_key, new_field_arg) ==
    LET new_key == Last(Split(new_field_arg))
        rest == MapRemove(m, current_key)
    IN  IF new_key \in DOMAIN rest THEN rest
        ELSE MapInsert(rest, new_key, m[current_key])

\* the base case: remove current_key, insert the last segment of new_field
RenameBase(m, current_key, new_field_arg) ==
    MapInsert(MapRemove(m, current_key), Last(Split(new_field_arg)), m[current_key])

ArrayLoopMutShortCircuit(items, results) ==
    [doc |-> Arr([i \in DOMAIN items |->
                    IF \E j \in 1..(i - 1) : results[j].renamed
                    THEN items[i] ELSE results[i].doc]),
     renamed |-> \E i \in DOMAIN items : results[i].renamed]

ArrayLoopMutLastOnly(items, results) ==
    [doc |-> Arr([i \in DOMAIN items |-> results[i].doc]),
     renamed |-> Len(items) > 0 /\ results[Len(items)].renamed]

\* the array arm's loop: results[i] is the call on items[i]; every item is
\* visited (renamed |= ... does not short-circuit)
ArrayLoop(items, results) ==
    [doc |-> Arr([i \in DOMAIN items |-> results[i].doc]),
     renamed |-> \E i \in DOMAIN items : results[i].renamed]

RECURSIVE rename_nested_field(_, _, _)
\* the object arm taking the child out of the map before it descends and
\* putting it back only when something below was renamed
RenameMutTakeChild(d, path, new_field_arg) ==
    IF path = <<>> THEN [doc |-> d, renamed |-> FALSE]
    ELSE
    LET current_key == Head(path)
        remaining_path == Tail(path)
    IN  CASE d.kind = "obj" ->
                IF current_key \in DOMAIN d.val
                THEN IF remaining_path = <<>>
                     THEN [doc |-> Obj(RenameBase(d.val, current_key, new_field_arg)),
                           renamed |-> TRUE]
                     ELSE LET r == rename_nested_field(d.val[current_key],
                                                       remaining_path, new_field_arg)
                          IN  IF r.renamed
                              THEN [doc |-> Obj([d.val EXCEPT ![current_key] = r.doc]),
                                    renamed |-> TRUE]
                              ELSE [doc |-> Obj(MapRemove(d.val, current_key)),
                                    renamed |-> FALSE]
                ELSE [doc |-> d, renamed |-> FALSE]
          [] d.kind = "arr" ->
                ArrayLoop(d.val,
                          [i \in DOMAIN d.val |->
                              rename_nested_field(d.val[i], path, new_field_arg)])
          [] OTHER -> [doc |-> d, renamed |-> FALSE]

rename_nested_field(d, path, new_field_arg) ==
    IF path = <<>> THEN [doc |-> d, renamed |-> FALSE]
    ELSE
    LET current_key == Head(path)
        remaining_path == Tail(path)
    IN  CASE d.kind = "obj" ->
                IF current_key \in DOMAIN d.val
                THEN IF remaining_path = <<>>
                     THEN [doc |-> Obj(RenameBase(d.val, current_key, new_field_arg)),
                           renamed |-> TRUE]
                     ELSE LET r == rename_nested_field(d.val[current_key],
                                                       remaining_path, new_field_arg)
                          IN  [doc |-> Obj([d.val EXCEPT ![current_key] = r.doc]),
                               renamed |-> r.renamed]
                ELSE [doc |-> d, renamed |-> FALSE]
          [] d.kind = "arr" ->
                ArrayLoop(d.val,
                          [i \in DOMAIN d.val |->
                              rename_nested_field(d.val[i], path, new_field_arg)])
          [] OTHER -> [doc |-> d, renamed |-> FALSE]

(***************************************************************************)
(* Documents and paths the renamer is tried on                             *)
(***************************************************************************)
Keys == {<<"a">>, <<"b">>}
NewLeaves == {<<"a">>, <<"n">>}
Scalars == {Num(1), Num(2)}

ObjsOver(V) == {Obj(f) : f \in UNION {[D -> V] : D \in SUBSET Keys}}
ArrsOver(V) == {Arr(s) : s \in UNION {[1..n -> V] : n \in 0..MaxArrLen}}
Wrapped(V) == {Obj(k :> v) : k \in Keys, v \in V} \cup {Arr(<<v>>) : v \in V}

LeafObjs == ObjsOver(Scalars)
Flat == Scalars \cup LeafObjs
\* array elements: a scalar and the objects of at most one key
Elems == {Num(1)} \cup {o \in LeafObjs : Cardinality(DOMAIN o.val) <= 1}
Arrays == ArrsOver(Elems)
Nested == ObjsOver(Flat)
Docs == Flat \cup Arrays \cup Nested \cup Wrapped(Arrays \cup Nested)

Paths == UNION {[1..n -> Keys] : n \in 1..MaxPathLen}

\* the documents, paths and new names of the unit tests of rename.rs and of the
\* array example
ka == <<"a">>
kb == <<"b">>
kc == <<"c">>
kd == <<"d">>
kx == <<"x">>
new_b == <<"n", "e", "w", "_", "b">>
new_c == <<"n", "e", "w", "_", "c">>
new_x == <<"n", "e", "w", "_", "x">>

ArrayExampleDoc ==
    Obj(ka :> Obj(kb :> Arr(<<Obj(kc :> Num(1)), Obj(kc :> Num(2)), Obj(kd :> Num(3))>>)))
ArrayExampleOut ==
    Obj(ka :> Obj(kb :> Arr(<<Obj(new_c :> Num(1)), Obj(new_c :> Num(2)), Obj(kd :> Num(3))>>)))

TestCases ==
    { [doc |-> Obj(ka :> Obj(kb :> Num(1))), path |-> <<ka, kb>>, new_field |-> new_b],
      [doc |-> Obj(ka :> Obj(kb :> Obj(kc :> Num(2)))), path |-> <<ka, kb, kc>>,
       new_field |-> new_c],
      [doc |-> Obj(ka :> Obj(kb :> Arr(<<Obj(kc :> Num(1)), Obj(kc :> Num(2))>>))),
       path |-> <<ka, kb, kc>>, new_field |-> new_c],
      [doc |-> Obj(ka :> Obj(kb :> Num(1))), path |-> <<ka, kx>>, new_field |-> new_x],
      [doc |-> Obj(ka :> Obj(kb :> Num(1))), path |-> <<>>, new_field |-> new_b],
      [doc |-> ArrayExampleDoc, path |-> <<ka, kb, kc>>,
       new_field |-> Join(<<ka, kb, new_c>>)] }

\* the whole dotted --new string main hands over with the split old path p:
\* the parent path of p and the new leaf l (a validated pair); with the
\* empty path of the unit test, the new name alone
NewFieldFor(p, l) == IF p = <<>> THEN l ELSE Join(ButLast(p) \o <<l>>)

InitRenameWith(d, p, nf) ==
    /\ doc = d
    /\ doc0 = d
    /\ old_field_path = p
    /\ new_field = nf
    /\ calls = <<>>
    /\ old_field = <<>>
    /\ args_result = "none"
    /\ MainIdle
    /\ FetchIdle
    /\ metadata = <<>>

InitRename ==
    \/ \E d \in Docs, p \in Paths \cup {<<>>}, l \in NewLeaves :
            InitRenameWith(d, p, NewFieldFor(p, l))
    \/ \E c \in TestCases : InitRenameWith(c.doc, c.path, c.new_field)

\* one call rename_nested_field(&mut doc, &old_field_path, &new_field)
CallRename ==
    /\ Len(calls) < MaxCalls
    /\ LET r == rename_nested_field(doc, old_field_path, new_field) IN
            /\ doc' = r.doc
            /\ calls' = Append(calls, r)
    /\ UNCHANGED <<argsVars, doc0, old_field_path, mainVars, fetchVars, metadata>>

NextRename == CallRename

SpecRename == InitRename /\ [][NextRename]_vars

(***************************************************************************)
(* Places in a document.  A place is a sequence of steps, <<"k", key>>     *)
(* into an object and <<"i", index>> into an array.                        *)
(***************************************************************************)
KeyStep(k) == <<"k", k>>
IdxStep(i) == <<"i", i>>

RECURSIVE Positions(_)
Positions(v) ==
    {<<>>} \cup
    (IF v.kind = "obj"
     THEN UNION {{<<KeyStep(k)>> \o p : p \in Positions(v.val[k])} : k \in DOMAIN v.val}
     ELSE IF v.kind = "arr"
     THEN UNION {{<<IdxStep(i)>> \o p : p \in Positions(v.val[i])} : i \in DOMAIN v.val}
     ELSE {})

RECURSIVE At(_, _)
At(v, p) == IF p = <<>> THEN v ELSE At(v.val[p[1][2]], Tail(p))

IsKeyStep(s) == s[1] = "k"
\* the keys a place goes through, arrays left out
KeysOf(p) == LET ks == SelectSeq(p, IsKeyStep) IN [i \in 1..Len(ks) |-> ks[i][2]]

IsPrefix(p, q) == Len(p) <= Len(q) /\ SubSeq(q, 1, Len(p)) = p

\* the places reached from v by going through every element of an array and,
\* at an object, through the key that is the next of segs
RECURSIVE Reached(_, _)
Reached(v, segs) ==
    {<<>>} \cup
    (IF v.kind = "arr"
     THEN UNION {{<<IdxStep(i)>> \o p : p \in Reached(v.val[i], segs)} : i \in DOMAIN v.val}
     ELSE IF v.kind = "obj" /\ segs # <<>> /\ Head(segs) \in DOMAIN v.val
     THEN {<<KeyStep(Head(segs))>> \o p : p \in Reached(v.val[Head(segs)], Tail(segs))}
     ELSE {})

\* the places the traversal for path reaches: those whose keys are the first
\* segments of path, in order, with at least one segment left
VisitedByKeys(d, path) ==
    {p \in Positions(d) :
        /\ Len(KeysOf(p)) < Len(path)
        /\ KeysOf(p) = SubSeq(path, 1, Len(KeysOf(p)))}

\* the same set, found without going through the places off the path
Visited(d, path) == IF path = <<>> THEN {} ELSE Reached(d, ButLast(path))

\* what is left of path at a visited place
RemainingAt(p, path) == SubSeq(path, Len(KeysOf(p)) + 1, Len(path))

\* the terminal matches: the objects reached with the last segment alone
\* left that hold it as a key
Terminal(d, path) ==
    {p \in Visited(d, path) :
        /\ Len(KeysOf(p)) = Len(path) - 1
        /\ At(d, p).kind = "obj"
        /\ Last(path) \in DOMAIN At(d, p).val}

NewLeaf == Last(Split(new_field))

\* the document the k-th call started from
Before(k) == IF k = 1 THEN doc0 ELSE calls[k - 1].doc

(***************************************************************************)
(* Claims about rename_nested_field (checked under SpecRename)             *)
(***************************************************************************)
\* the call made last, if any: every call of a run is the last one of some state
CallIds == IF calls = <<>> THEN {} ELSE {Len(calls)}

\* C3: an array along the path hands the same, unconsumed path to every
\* element: each element of a reached array ends as the call on that element
\* alone leaves it, so every element holding the last segment is renamed (not
\* only the first) and the elements without it stay as they were; a call on an
\* array returns true iff the call on at least one element does; and the
\* array example ends as the expected document.
C3_ArrayEveryElement ==
    \A k \in CallIds :
        LET pre == Before(k)
            post == calls[k].doc
        IN  /\ \A p \in Visited(pre, old_field_path) :
                    At(pre, p).kind = "arr" =>
                        LET rest == RemainingAt(p, old_field_path)
                            items == At(pre, p).val
                        IN  /\ At(post, p).kind = "arr"
                            /\ Len(At(post, p).val) = Len(items)
                            /\ \A i \in DOMAIN items :
                                   LET e == items[i]
                                       e2 == At(post, p).val[i]
                                   IN  /\ e2 = rename_nested_field(e, rest, new_field).doc
                                       /\ Len(rest) = 1 =>
                                             IF e.kind = "obj" /\ rest[1] \in DOMAIN e.val
                                             THEN /\ e2.kind = "obj"
                                                  /\ NewLeaf \in DOMAIN e2.val
                                                  /\ e2.val[NewLeaf] = e.val[rest[1]]
                                                  /\ (rest[1] # NewLeaf =>
                                                         rest[1] \notin DOMAIN e2.val)
                                             ELSE e.kind # "arr" => e2 = e
            /\ (pre.kind = "arr" /\ old_field_path # <<>>) =>
                    (calls[k].renamed <=>
                        \E i \in DOMAIN pre.val :
                            Terminal(pre.val[i], old_field_path) # {})
            /\ (k = 1 /\ pre = ArrayExampleDoc /\ old_field_path = <<ka, kb, kc>>
                       /\ NewLeaf = new_c) =>
                    (post = ArrayExampleOut /\ calls[k].renamed)

\* the array example has been renamed
C3_Witness ==
    /\ Len(calls) >= 1
    /\ doc0 = ArrayExampleDoc
    /\ old_field_path = <<ka, kb, kc>>
    /\ calls[1].doc = ArrayExampleOut

\* C4: with a non-empty path a call returns true iff the document it started
\* from has at least one terminal match: an object, reached through the keys
\* named by the segments before the last (arrays passed through without using
\* a segment), that holds the last segment as a key.
C4_TrueIffTerminalMatch ==
    \A k \in CallIds :
        old_field_path # <<>> =>
            /\ calls[k].renamed <=> Terminal(Before(k), old_field_path) # {}
            /\ Visited(Before(k), old_field_path) = VisitedByKeys(Before(k), old_field_path)

\* a call with a path of several segments returned true on a match below an
\* array
C4_Witness ==
    /\ Len(calls) >= 1
    /\ calls[1].renamed
    /\ \E t \in Terminal(doc0, old_field_path) : \E i \in 1..Len(t) : ~IsKeyStep(t[i])
    /\ Len(old_field_path) >= 2

\* C5 as stated: after two calls with the same arguments the document is the
\* one the first call left and the second call returned false.
C5_Original ==
    (Len(calls) >= 2 /\ old_field_path # <<>>) =>
        (calls[2].doc = calls[1].doc /\ ~calls[2].renamed)

\* C5 amended: the second call leaves the document as the first call left it,
\* and it returns false when the new leaf differs from the old leaf; when the
\* two are the same name it returns what the first call returned.
C5_Idempotent ==
    (Len(calls) >= 2 /\ old_field_path # <<>>) =>
        /\ calls[2].doc = calls[1].doc
        /\ Last(old_field_path) # NewLeaf => ~calls[2].renamed
        /\ Last(old_field_path) = NewLeaf => (calls[2].renamed <=> calls[1].renamed)

\* a second call after a first one that renamed something to another name
C5_Witness ==
    /\ Len(calls) >= 2
    /\ calls[1].renamed
    /\ calls[1].doc # doc0
    /\ ~calls[2].renamed

\* C6: at every terminal match the object ends with the old key gone and the
\* new leaf holding the value the old key held (whatever the new leaf held
\* before), its other keys as they were; every object or array above a
\* terminal match keeps its keys or its length; everything else in the
\* document is as it was.
C6_RenameMovesValue ==
    \A k \in CallIds :
        old_field_path # <<>> =>
            LET pre == Before(k)
                post == calls[k].doc
                T == Terminal(pre, old_field_path)
                old == Last(old_field_path)
            IN  \A p \in Positions(pre) :
                    IF p \in T
                    THEN /\ At(post, p).kind = "obj"
                         /\ DOMAIN At(post, p).val =
                                ((DOMAIN At(pre, p).val) \ {old}) \cup {NewLeaf}
                         /\ At(post, p).val[NewLeaf] = At(pre, p).val[old]
                         /\ \A x \in (DOMAIN At(pre, p).val) \ {old, NewLeaf} :
                                At(post, p).val[x] = At(pre, p).val[x]
                    ELSE IF \E t \in T : IsPrefix(p, t)
                    THEN /\ At(post, p).kind = At(pre, p).kind
                         /\ DOMAIN At(post, p).val = DOMAIN At(pre, p).val
                    ELSE (\A t \in T : ~IsPrefix(t, p)) => At(post, p) = At(pre, p)

\* a rename onto a key the object already held, next to a sibling key
C6_Witness ==
    /\ Len(calls) >= 1
    /\ old_field_path # <<>>
    /\ Last(old_field_path) # NewLeaf
    /\ \E t \in Terminal(doc0, old_field_path) :
            /\ NewLeaf \in DOMAIN At(doc0, t).val
            /\ At(doc0, t).val[NewLeaf] # At(doc0, t).val[Last(old_field_path)]
            /\ At(calls[1].doc, t).val[NewLeaf] = At(doc0, t).val[Last(old_field_path)]
            /\ Len(t) >= 1

\* C7: a call that returns false leaves the document as it found it.
C7_FalseLeavesDocument ==
    \A k \in CallIds : ~calls[k].renamed => calls[k].doc = Before(k)

\* a call returned false on a document that holds the first segment of the
\* path but not the whole path
C7_Witness ==
    /\ Len(calls) >= 1
    /\ ~calls[1].renamed
    /\ Len(old_field_path) >= 2
    /\ doc0.kind = "obj"
    /\ old_field_path[1] \in DOMAIN doc0.val
    /\ calls[1].doc = doc0

(***************************************************************************)
(* parse_args on its own: every pair of short strings, and the pairs of    *)
(* the path-shape examples                                                 *)
(***************************************************************************)
Alphabet == {"a", "b", "A", Dot}
Strings == UNION {[1..n -> Alphabet] : n \in 0..MaxStrLen}

a_b_c == <<"a", Dot, "b", Dot, "c">>
a_b_d == <<"a", Dot, "b", Dot, "d">>
a_x_c == <<"a", Dot, "x", Dot, "c">>
x_y == <<"x", Dot, "y">>
ExampleStrings == {a_b_c, a_b_d, a_x_c, x_y}

InitArgs ==
    /\ \/ old_field \in Strings /\ new_field \in Strings
       \/ old_field \in ExampleStrings /\ new_field \in ExampleStrings
    /\ args_result = "none"
    /\ RenameIdle
    /\ MainIdle
    /\ FetchIdle
    /\ metadata = <<>>

\* the validation of parse_args (args.rs:83-112, the same in main.rs:68-96)
ParseArgs ==
    /\ args_result = "none"
    /\ args_result' = ParseArgsResult(old_field, new_field)
    /\ UNCHANGED <<old_field, new_field, renameVars, mainVars, fetchVars, metadata>>

NextArgs == ParseArgs

SpecArgs == InitArgs /\ [][NextArgs]_vars

\* the number of '.' in a string
RECURSIVE CountDots(_)
CountDots(s) ==
    IF s = <<>> THEN 0 ELSE (IF Head(s) = Dot THEN 1 ELSE 0) + CountDots(Tail(s))

\* C1 (under SpecArgs): parse_args accepts (old, new) iff, split on '.', both have the same
\* number of segments (one more than their dots) and every segment but the last
\* is the same in both, compared exactly; it rejects a.b.c / x.y and
\* a.b.c / a.x.c and accepts a.b.c / a.b.d.
C1_AcceptsIffSameShape ==
    args_result # "none" =>
        LET o == Split(old_field)
            n == Split(new_field)
        IN  /\ Len(o) = CountDots(old_field) + 1
            /\ Len(n) = CountDots(new_field) + 1
            /\ (args_result = "ok") <=>
                    (/\ Len(o) = Len(n)
                     /\ \A i \in 1..(Len(o) - 1) : o[i] = n[i])
            /\ args_result \in {"ok", "err_depth", "err_parent"}
            /\ (old_field = a_b_c /\ new_field = x_y) => args_result = "err_depth"
            /\ (old_field = a_b_c /\ new_field = a_x_c) => args_result = "err_parent"
            /\ (old_field = a_b_c /\ new_field = a_b_d) => args_result = "ok"

\* a pair that differs only in the case of a parent segment has been rejected
C1_Witness ==
    /\ args_result = "err_parent"
    /\ old_field = <<"a", Dot, "b">>
    /\ new_field = <<"A", Dot, "b">>

(***************************************************************************)
(* main (main.rs:231-316).  An action is the code between two awaits; the  *)
(* for loop takes one document per step.                                   *)
(***************************************************************************)
kid == <<"_", "i", "d">>
krev == <<"_", "r", "e", "v">>
kn == <<"n">>

Request(method, target, id, if_match, body) ==
    [method |-> method, target |-> target, id |-> id, if_match |-> if_match, body |-> body]
GetMetadata == Request("GET", "table", NoneStr, NoneStr, Null)
GetAllDocs(partitioned) ==
    Request("GET", IF partitioned THEN "_all_docs&startkey" ELSE "_all_docs",
            NoneStr, NoneStr, Null)
PutDocument(id, rev, body) == Request("PUT", "doc", id, rev, body)

Line(ev, id) == [ev |-> ev, id |-> id]

\* the (--old, --new) pairs main is run with
MainArgs ==
    { <<ka, kn>>, <<ka, ka>>,
      <<Join(<<ka, kb>>), Join(<<ka, kn>>)>>,
      <<Join(<<ka, kb>>), kn>>,
      <<Join(<<ka, kb>>), Join(<<kb, kn>>)>>,
      <<krev, kn>> }

\* the documents the store may return
StoreDocs ==
    { Obj(kid :> Str("1") @@ krev :> Str("r1") @@ ka :> Num(1)),
      Obj(kid :> Str("2") @@ krev :> Str("r2") @@ ka :> Obj(kb :> Num(2))),
      Obj(kid :> Str("3") @@ krev :> Str("r3") @@ kn :> Num(3)),
      Obj(kid :> Str("4") @@ ka :> Num(4)) }
StoreDocLists == UNION {[1..n -> StoreDocs] : n \in 0..MaxDocs}

InitMain ==
    /\ \E a \in MainArgs : old_field = a[1] /\ new_field = a[2]
    /\ args_result = "none"
    /\ RenameIdle
    /\ pc = "start"
    /\ dry_run \in BOOLEAN
    /\ net = <<>>
    /\ out = <<>>
    /\ documents = <<>>
    /\ di = 0
    /\ exit_status = -1
    /\ updates = <<>>
    /\ FetchIdle
    /\ metadata = <<>>

RequestsAfterParseMutProbeFirst(result) == <<GetMetadata>>

\* what main sends once parse_args has returned: nothing on Err (it returns),
\* the metadata GET of is_partitioned on Ok
RequestsAfterParse(result) == IF result = "ok" THEN <<GetMetadata>> ELSE <<>>

\* main.rs:234-257: parse_args, then the banner and the send of is_partitioned
MainParseArgs ==
    /\ pc = "start"
    /\ LET r == ParseArgsResult(old_field, new_field) IN
        /\ args_result' = r
        /\ net' = net \o RequestsAfterParse(r)
        /\ IF r = "ok"
           THEN /\ out' = out \o <<Line("start", NoneStr),
                                   Line(IF dry_run THEN "dry_run_on" ELSE "dry_run_off",
                                        NoneStr)>>
                /\ pc' = "is_partitioned"
                /\ exit_status' = exit_status
           ELSE /\ out' = Append(out, Line("error_args", NoneStr))
                /\ pc' = "returned"
                /\ exit_status' = 0
    /\ UNCHANGED <<old_field, new_field, renameVars, dry_run, documents, di, updates, fetchVars,
                   metadata>>

kprops == <<"p", "r", "o", "p", "s">>
kpartitioned == <<"p", "a", "r", "t", "i", "t", "i", "o", "n", "e", "d">>
kdoc_count == <<"d", "o", "c", "_", "c", "o", "u", "n", "t">>

\* an object of the keys whose set of values is not empty (one value each)
Fields(opts) ==
    [k \in {x \in DOMAIN opts : opts[x] # {}} |-> CHOOSE v \in opts[k] : TRUE]

\* the bodies the store may answer the metadata GET with: each of props,
\* props.partitioned, a top-level partitioned and doc_count present or absent
PropsOptions ==
    {{}, {Obj(Fields([x \in {kpartitioned} |-> {}]))},
     {Obj(kpartitioned :> Bool(TRUE))}, {Obj(kpartitioned :> Bool(FALSE))}}
MetadataBodies(props, counts) ==
    { Obj(Fields(kprops :> p @@ kpartitioned :> t @@ kdoc_count :> c)) :
        p \in props,
        t \in {{}, {Bool(TRUE)}},
        c \in {{}} \cup {{Num(n)} : n \in counts} }

\* json["partitioned"].as_bool().unwrap_or(false) (main.rs:115)
IsPartitionedOf(json) == AsBoolOrFalse(JsonIndex(json, kpartitioned))

ProbeOutcomes == {"send_error", "bad_status", "bad_body", "ok"}

\* main.rs:257-276 with is_partitioned (99-116): the answer to the metadata GET,
\* then the send of fetch_documents
MainIsPartitioned ==
    /\ pc = "is_partitioned"
    /\ \E o \in ProbeOutcomes :
        IF o # "ok"
        THEN /\ out' = Append(out, Line("error_partitioned", NoneStr))
             /\ pc' = "returned"
             /\ exit_status' = 0
             /\ UNCHANGED <<net, metadata>>
        ELSE \E json \in MetadataBodies({{}, {Obj(kpartitioned :> Bool(TRUE))}}, {}) :
             LET partitioned == IsPartitionedOf(json) IN
             /\ metadata' = json
             /\ out' = Append(out, Line(IF partitioned THEN "partitioned"
                                                        ELSE "not_partitioned", NoneStr))
             /\ net' = Append(net, GetAllDocs(partitioned))
             /\ pc' = "fetch_documents"
             /\ exit_status' = exit_status
    /\ UNCHANGED <<argsVars, renameVars, dry_run, documents, di, updates, fetchVars>>

FetchOutcomes == {"send_error", "bad_status", "bad_body", "no_rows", "ok"}

\* main.rs:275-284 with fetch_documents (119-155): the answer to _all_docs
MainFetchDocuments ==
    /\ pc = "fetch_documents"
    /\ \E o \in FetchOutcomes :
        IF o # "ok"
        THEN /\ out' = Append(out, Line("error_fetch", NoneStr))
             /\ pc' = "returned"
             /\ exit_status' = 0
             /\ UNCHANGED <<documents, di>>
        ELSE \E ds \in StoreDocLists :
             /\ documents' = ds
             /\ di' = 1
             /\ out' = Append(out, Line("processing", NoneStr))
             /\ pc' = "for"
             /\ exit_status' = exit_status
    /\ UNCHANGED <<argsVars, renameVars, dry_run, net, updates, fetchVars, metadata>>

\* the id main prints for a document
UnknownId == "<unknown>"
PrintedId(d) == IF AsStr(JsonIndex(d, kid)) = NoneStr THEN UnknownId
                ELSE AsStr(JsonIndex(d, kid))

\* update_document before its send (main.rs:206-218): the Err of a missing
\* _id or _rev, or the PUT it sends
UpdateRequest(d) ==
    LET id == AsStr(JsonIndex(d, kid))
        rev == AsStr(JsonIndex(d, krev))
    IN  IF id = NoneStr \/ rev = NoneStr THEN <<>>
        ELSE <<PutDocument(id, rev, d)>>

\* the Err of update_document before its send (main.rs:206-209)
MissingField(d) ==
    IF AsStr(JsonIndex(d, kid)) = NoneStr THEN "Document missing '_id' field"
    ELSE "Document missing '_rev' field"

UpdateOutcomes == {"send_error", "200", "201", "409", "500"}

Ok == [ok |-> TRUE, err |-> <<>>]
Err(e) == [ok |-> FALSE, err |-> e]

\* the Result<(), String> of update_document once its PUT is answered
\* (main.rs:218-228): the text of the transport error, or the message with
\* the id and the status, or Ok(())
UpdateResult(o, id) ==
    IF o = "send_error" THEN Err(<<"error sending request">>)
    ELSE IF o # "200" /\ o # "201"
         THEN Err(<<"Failed to update document", id, "Status code", o>>)
         ELSE Ok

\* what main prints for a Result of update_document (main.rs:297-303)
UpdateLine(result, id) == Line(IF result.ok THEN "updated" ELSE "error_update", id)

Update(i, o, result) == [di |-> i, outcome |-> o, result |-> result]

HandlerBranchMutIgnoreDryRun(renamed, dry) ==
    IF renamed THEN "update" ELSE "not_found"

HandlerBranchMutUpdateNotFound(renamed, dry) ==
    IF ~dry THEN "update" ELSE (IF renamed THEN "dry_run" ELSE "not_found")

\* the branch of the loop body a document takes (main.rs:292-312)
HandlerBranch(renamed, dry) ==
    IF renamed THEN (IF ~dry THEN "update" ELSE "dry_run") ELSE "not_found"

\* main.rs:287-313: one turn of the for loop, up to the send of update_document
MainForDocument ==
    /\ pc = "for"
    /\ di <= Len(documents)
    /\ LET d == documents[di]
           r == rename_nested_field(d, Split(old_field), new_field)
           id == PrintedId(d)
           branch == HandlerBranch(r.renamed, dry_run)
           begin == IF r.renamed THEN <<Line("renamed", id)>> ELSE <<>>
       IN  IF branch = "update"
           THEN IF UpdateRequest(r.doc) = <<>>
                THEN LET result == Err(<<MissingField(r.doc)>>) IN
                     /\ out' = out \o begin \o <<UpdateLine(result, id)>>
                     /\ updates' = Append(updates, Update(di, "not_sent", result))
                     /\ di' = di + 1
                     /\ UNCHANGED <<net, pc>>
                ELSE /\ out' = out \o begin
                     /\ net' = net \o UpdateRequest(r.doc)
                     /\ pc' = "update_document"
                     /\ UNCHANGED <<di, updates>>
           ELSE /\ out' = out \o begin \o <<Line(branch, id)>>
                /\ di' = di + 1
                /\ UNCHANGED <<net, pc, updates>>
    /\ UNCHANGED <<argsVars, renameVars, dry_run, documents, exit_status, fetchVars, metadata>>

MainUpdateDocumentMutAbort ==
    /\ pc = "update_document"
    /\ \E o \in UpdateOutcomes :
        LET result == UpdateResult(o, Last(net).id) IN
        /\ out' = Append(out, UpdateLine(result, PrintedId(documents[di])))
        /\ updates' = Append(updates, Update(di, o, result))
        /\ pc' = IF result.ok THEN "for" ELSE "returned"
    /\ di' = di + 1
    /\ UNCHANGED <<argsVars, renameVars, dry_run, net, documents, exit_status, fetchVars,
                   metadata>>

\* main.rs:297-303 with update_document (218-228): the answer to the PUT
MainUpdateDocument ==
    /\ pc = "update_document"
    /\ \E o \in UpdateOutcomes :
        LET result == UpdateResult(o, Last(net).id) IN
        /\ out' = Append(out, UpdateLine(result, PrintedId(documents[di])))
        /\ updates' = Append(updates, Update(di, o, result))
    /\ di' = di + 1
    /\ pc' = "for"
    /\ UNCHANGED <<argsVars, renameVars, dry_run, net, documents, exit_status, fetchVars,
                   metadata>>

MainCompletedMutOnlyIfAllOk ==
    /\ pc = "for"
    /\ di > Len(documents)
    /\ out' = IF \E k \in DOMAIN updates : ~updates[k].result.ok
              THEN out ELSE Append(out, Line("completed", NoneStr))
    /\ pc' = "returned"
    /\ exit_status' = 0
    /\ UNCHANGED <<argsVars, renameVars, dry_run, net, documents, di, updates, fetchVars,
                   metadata>>

\* main.rs:315-316: the loop is over
MainCompleted ==
    /\ pc = "for"
    /\ di > Len(documents)
    /\ out' = Append(out, Line("completed", NoneStr))
    /\ pc' = "returned"
    /\ exit_status' = 0
    /\ UNCHANGED <<argsVars, renameVars, dry_run, net, documents, di, updates, fetchVars,
                   metadata>>

Next ==
    \/ MainParseArgs
    \/ MainIsPartitioned
    \/ MainFetchDocuments
    \/ MainForDocument
    \/ MainUpdateDocument
    \/ MainCompleted

Spec == InitMain /\ [][Next]_vars

\* main under the scheduling of the runtime: the task of main is polled until
\* it returns, and every request it awaits is answered or fails
SpecLive == Spec /\ WF_vars(Next)

\* C2: once path validation has failed, main has returned and no request of
\* any kind has been sent, and none is sent in the rest of the run.
C2_NoRequestAfterPathError ==
    args_result \in {"err_depth", "err_parent"} =>
        /\ net = <<>>
        /\ pc = "returned"
        /\ ~ENABLED Next

\* a run whose paths differ in a parent segment has ended
C2_Witness ==
    /\ args_result = "err_parent"
    /\ pc = "returned"
    /\ out = <<Line("error_args", NoneStr)>>

(***************************************************************************)
(* FetchDocument (fetch.rs).  A usize is a record [hi, lo] standing for    *)
(* hi * 2^31 + lo with 0 <= lo < 2^31, so that limits beyond the i32 range *)
(* can be written down; counts of documents are small naturals.            *)
(***************************************************************************)
I32Max == 2147483647

Usize(h, l) == [hi |-> h, lo |-> l]

\* `self.limit as i32`: the low 32 bits, read as two's complement
AsI32(u) == IF u.hi % 2 = 1 THEN (u.lo - I32Max) - 1 ELSE u.lo

\* n < u for a small natural n and a usize u
LessThanUsize(n, u) == u.hi > 0 \/ n < u.lo

NoBookmark == [some |-> FALSE, tok |-> <<>>]
SomeBookmark(t) == [some |-> TRUE, tok |-> t]

\* the store: a static table of documents 1..stored, read in _id order; the
\* bookmark it hands out names the place the next page starts at
StoreToken(offset) == <<"g1AAAA", offset>>
StoreOffset(bm) == IF bm.some THEN bm.tok[2] ELSE 0
Min(a, b) == IF a <= b THEN a ELSE b
StorePage(n, lim, bm) ==
    LET off == StoreOffset(bm)
        size == Min(lim, n - off)
    IN  [docs |-> [i \in 1..size |-> off + i],
         bookmark |-> SomeBookmark(StoreToken(off + size))]

\* the body of a _find request (SelectorContent, fetch.rs:119-127)
FindRequest(lim, bm) == [kind |-> "find", limit |-> AsI32(lim), bookmark |-> bm]
MetadataRequest == [kind |-> "metadata", limit |-> 0, bookmark |-> NoBookmark]

IsFind(r) == r.kind = "find"
PageRequests == SelectSeq(requests, IsFind)

\* FetchDocument::new, then execute up to the send of get_metadata
InitFetch ==
    /\ \E h \in 0..MaxLimitHi, l \in 0..MaxLimit : limit = Usize(h, l)
    /\ stored \in 0..MaxStored
    /\ fstate = "get_metadata"
    /\ bookmark = NoBookmark
    /\ is_partitioned = FALSE
    /\ doc_count = 0
    /\ count = 0
    /\ total_record = 0
    /\ requests = <<MetadataRequest>>
    /\ responses = <<>>
    /\ handled = <<>>
    /\ progress = <<>>
    /\ old_field = <<>>
    /\ new_field = <<>>
    /\ args_result = "none"
    /\ RenameIdle
    /\ MainIdle
    /\ metadata = <<>>

MetadataOutcomes == {"send_error", "bad_status", "bad_body", "ok"}

\* json["props"]["partitioned"].as_bool().unwrap_or(false) (fetch.rs:95)
MetadataPartitioned(json) ==
    AsBoolOrFalse(JsonIndex(JsonIndex(json, kprops), kpartitioned))
\* json["doc_count"].as_u64().unwrap_or(0) as usize (fetch.rs:98)
MetadataDocCount(json) == AsU64OrZero(JsonIndex(json, kdoc_count))

FetchGetMetadataMutIgnoreError ==
    /\ fstate = "get_metadata"
    /\ \E o \in MetadataOutcomes :
        /\ IF o # "ok"
           THEN UNCHANGED <<metadata, is_partitioned, doc_count>>
           ELSE \E json \in MetadataBodies(PropsOptions, {0, stored, stored + 1}) :
                /\ metadata' = json
                /\ is_partitioned' = MetadataPartitioned(json)
                /\ doc_count' = MetadataDocCount(json)
        /\ count' = 1
        /\ total_record' = 0
        /\ requests' = Append(requests, FindRequest(limit, bookmark))
        /\ fstate' = "fetch_and_apply"
    /\ UNCHANGED <<argsVars, renameVars, mainVars, limit, bookmark, responses, handled,
                   progress, stored>>

\* get_metadata after its send (fetch.rs:81-107), then execute up to the send
\* of the first fetch_and_apply (fetch.rs:43-50, 119-138); an Err is unwrapped
FetchGetMetadata ==
    /\ fstate = "get_metadata"
    /\ \E o \in MetadataOutcomes :
        IF o # "ok"
        THEN /\ fstate' = "panicked"
             /\ UNCHANGED <<is_partitioned, doc_count, count, total_record, requests,
                            metadata>>
        ELSE \E json \in MetadataBodies(PropsOptions, {0, stored, stored + 1}) :
             /\ metadata' = json
             /\ is_partitioned' = MetadataPartitioned(json)
             /\ doc_count' = MetadataDocCount(json)
             /\ count' = 1
             /\ total_record' = 0
             /\ requests' = Append(requests, FindRequest(limit, bookmark))
             /\ fstate' = "fetch_and_apply"
    /\ UNCHANGED <<argsVars, renameVars, mainVars, limit, bookmark, responses, handled,
                   progress, stored>>

IsLastPageMutInclusive(num_of_record, lim) ==
    LessThanUsize(num_of_record, lim) \/ (lim.hi = 0 /\ num_of_record = lim.lo)

IsLastPageMutCount(num_of_record, lim) ==
    LessThanUsize(num_of_record, lim) \/ total_record + num_of_record >= doc_count

\* the termination rule (fetch.rs:60): num_of_record < self.limit
IsLastPage(num_of_record, lim) == LessThanUsize(num_of_record, lim)

NextBookmarkMutKeepFirst(current, answered) ==
    IF current.some THEN current ELSE answered

\* self.bookmark = json["bookmark"].as_str().map(String::from) (fetch.rs:153)
NextBookmark(current, answered) == answered

PageOutcomes == {"send_error", "bad_status", "bad_body", "no_docs", "ok"}

ApplyCallbackMutSkipFirst(seen, rows) ==
    IF rows = <<>> THEN seen ELSE seen \o Tail(rows)

\* rows.iter().map(|doc| (self.callback)(doc.clone())) (fetch.rs:161-164):
\* the callback is called with every row, in order
ApplyCallback(seen, rows) == seen \o rows

\* fetch_and_apply after its send (fetch.rs:140-166), then execute up to the
\* break or the send of the next fetch_and_apply (fetch.rs:51-65, 119-138).
\* The store answers a negative limit with a bad status.
FetchAndApply ==
    /\ fstate = "fetch_and_apply"
    /\ Len(responses) < MaxPages
    /\ LET req == Last(requests) IN
       \E o \in PageOutcomes :
        IF o # "ok" \/ req.limit < 0
        THEN /\ fstate' = "panicked"
             /\ bookmark' = IF o = "no_docs" /\ req.limit >= 0
                             THEN NextBookmark(bookmark,
                                               StorePage(stored, req.limit, req.bookmark).bookmark)
                             ELSE bookmark
             /\ UNCHANGED <<count, total_record, requests, responses, handled, progress>>
        ELSE LET page == StorePage(stored, req.limit, req.bookmark)
                 num_of_record == Len(page.docs)
                 bm == NextBookmark(bookmark, page.bookmark)
             IN  /\ bookmark' = bm
                 /\ responses' = Append(responses, page)
                 /\ handled' = ApplyCallback(handled, page.docs)
                 /\ total_record' = total_record + num_of_record
                 /\ progress' = Append(progress,
                                       [total |-> total_record + num_of_record,
                                        of |-> doc_count, iteration |-> count])
                 /\ IF IsLastPage(num_of_record, limit)
                    THEN /\ fstate' = "done"
                         /\ UNCHANGED <<count, requests>>
                    ELSE /\ count' = count + 1
                         /\ requests' = Append(requests, FindRequest(limit, bm))
                         /\ fstate' = "fetch_and_apply"
    /\ UNCHANGED <<argsVars, renameVars, mainVars, limit, is_partitioned, doc_count, stored,
                   metadata>>

NextFetch == FetchGetMetadata \/ FetchAndApply

SpecFetch == InitFetch /\ [][NextFetch]_vars

\* execute under the scheduling of the runtime: the task is polled until it
\* ends, and every request it awaits is answered or fails
SpecFetchLive == SpecFetch /\ WF_vars(NextFetch)

(***************************************************************************)
(* Claims about the fetch loop (checked under SpecFetch)                   *)
(***************************************************************************)
BatchSize(k) == Len(responses[k].docs)

\* the concatenation of the batches answered so far
RECURSIVE BatchesUpTo(_)
BatchesUpTo(k) == IF k = 0 THEN <<>> ELSE BatchesUpTo(k - 1) \o responses[k].docs

\* C8: after an answer whose batch size equals the configured page size
\* another page request has been sent and the scan is not done; after an
\* answer whose batch size is strictly less than the page size that answer is
\* the last one, its documents have been handled, the scan is done, no page
\* request follows it and nothing more can happen.
C8_TerminationRule ==
    \A k \in 1..Len(responses) :
        /\ (limit.hi = 0 /\ BatchSize(k) = limit.lo) =>
                /\ Len(PageRequests) >= k + 1
                /\ k = Len(responses) => fstate # "done"
        /\ LessThanUsize(BatchSize(k), limit) =>
                /\ k = Len(responses)
                /\ Len(PageRequests) = k
                /\ fstate = "done"
                /\ handled = BatchesUpTo(k)
                /\ ~ENABLED NextFetch

\* a scan that went through two full pages and ended on a short one
C8_Witness ==
    /\ fstate = "done"
    /\ limit = Usize(0, 2)
    /\ Len(responses) = 3
    /\ BatchSize(1) = 2 /\ BatchSize(2) = 2 /\ BatchSize(3) < 2
    /\ Len(PageRequests) = 3

\* stored divided by a usize, and the remainder
DivUsize(n, u) == IF u.hi > 0 THEN 0 ELSE n \div u.lo
ModUsize(n, u) == IF u.hi > 0 THEN n ELSE n % u.lo

\* C9: with a page size L >= 1 a finished scan of N stored documents has sent
\* exactly floor(N / L) + 1 page requests, and the batches were L, ..., L and
\* last N mod L documents.
C9_ExactPageCount ==
    (fstate = "done" /\ (limit.hi > 0 \/ limit.lo >= 1)) =>
        /\ Len(PageRequests) = DivUsize(stored, limit) + 1
        /\ Len(responses) = DivUsize(stored, limit) + 1
        /\ \A k \in 1..Len(responses) :
               IF k < Len(responses)
               THEN limit.hi = 0 /\ BatchSize(k) = limit.lo
               ELSE BatchSize(k) = ModUsize(stored, limit)

\* C9 for the page sizes the i32 of the request body can hold (below 2^31)
C9_ExactPageCountWithinI32 ==
    limit.hi = 0 => C9_ExactPageCount

\* C10: the first page request carries no bookmark, and page request k + 1
\* carries the bookmark of answer k, whatever k.
C10_CursorThreading ==
    /\ Len(PageRequests) <= Len(responses) + 1
    /\ PageRequests # <<>> => PageRequests[1].bookmark = NoBookmark
    /\ \A k \in 1..(Len(PageRequests) - 1) :
           /\ PageRequests[k + 1].bookmark.some
           /\ PageRequests[k + 1].bookmark = responses[k].bookmark

\* a third page request has been sent with the bookmark of the second answer,
\* which is not the bookmark of the first
C10_Witness ==
    /\ Len(PageRequests) >= 3
    /\ PageRequests[3].bookmark = responses[2].bookmark
    /\ responses[2].bookmark # responses[1].bookmark

(***************************************************************************)
(* The two drivers of the repository side by side: a run is a run of main  *)
(* (main.rs) or a run of FetchDocument::execute (fetch.rs).                *)
(***************************************************************************)
InitDrivers == InitMain \/ InitFetch

NextDrivers == Next \/ NextFetch

SpecDrivers == InitDrivers /\ [][NextDrivers]_vars

IsPut(r) == r.method = "PUT"
Puts == SelectSeq(net, IsPut)

IsHandlingLine(l) == l.ev \in {"renamed", "not_found", "dry_run", "updated", "error_update"}

\* C11 (under SpecDrivers): a failure of the metadata probe or of a page fetch
\* ends the run for good.  In FetchDocument: once the probe has failed no
\* page request is ever sent; once a page fetch has failed it stays the last
\* request, sent once, none of its documents reached the handler, and no step
\* is left.  In main: after a failed probe or a failed fetch main has
\* returned with no request sent since, no document handled and no PUT.
C11_FailureIsTerminal ==
    /\ (fstate \notin {"idle", "get_metadata"} /\ metadata = <<>>) =>
            /\ fstate = "panicked"
            /\ requests = <<MetadataRequest>>
            /\ handled = <<>>
    /\ fstate = "panicked" =>
            /\ ~ENABLED NextDrivers
            /\ Len(requests) = 1 + Len(PageRequests)
            /\ Len(PageRequests) <= Len(responses) + 1
            /\ handled = BatchesUpTo(Len(responses))
    /\ (pc \notin {"idle", "start", "is_partitioned"} /\ args_result = "ok"
            /\ metadata = <<>>) =>
            /\ pc = "returned"
            /\ Last(out) = Line("error_partitioned", NoneStr)
            /\ net = <<GetMetadata>>
    /\ (out # <<>> /\ Last(out).ev \in {"error_partitioned", "error_fetch"}) =>
            /\ pc = "returned"
            /\ ~ENABLED NextDrivers
            /\ Puts = <<>>
            /\ updates = <<>>
            /\ SelectSeq(out, IsHandlingLine) = <<>>
            /\ Len(net) = (IF Last(out).ev = "error_fetch" THEN 2 ELSE 1)
    /\ (Puts # <<>> \/ SelectSeq(out, IsHandlingLine) # <<>>) =>
            /\ Line("processing", NoneStr) \in {out[i] : i \in DOMAIN out}
            /\ Line("error_fetch", NoneStr) \notin {out[i] : i \in DOMAIN out}

\* a page fetch failed after two pages had been handled
C11_Witness ==
    /\ fstate = "panicked"
    /\ Len(responses) = 2
    /\ Len(PageRequests) = 3
    /\ Len(handled) = 4

(***************************************************************************)
(* The scan and the probed count                                           *)
(***************************************************************************)
\* the page requests of a scan of n stored documents with page size lim from
\* bookmark bm on, as the page size, the store and the bookmarks alone fix
\* them (at most `left` of them): a request, and the next one when the store
\* answers a batch that is not shorter than lim
RECURSIVE ScanFrom(_, _, _, _)
ScanFrom(lim, n, bm, left) ==
    IF left = 0 THEN <<>>
    ELSE LET asked == AsI32(lim)
             req == [kind |-> "find", limit |-> asked, bookmark |-> bm]
         IN  IF asked < 0 THEN <<req>>
             ELSE LET page == StorePage(n, asked, bm) IN
                  IF LessThanUsize(Len(page.docs), lim) THEN <<req>>
                  ELSE <<req>> \o ScanFrom(lim, n, page.bookmark, left - 1)

ScanRequests == ScanFrom(limit, stored, NoBookmark, MaxPages + 1)

\* C12 (under SpecFetch): whatever count the probe answered (none, 0, the
\* true one, a wrong one), the page requests sent so far are the first ones
\* of the sequence the page size and the store alone determine, a scan is
\* done exactly at the end of that sequence, and the count appears in the
\* progress lines only.
C12_CountNotControlFlow ==
    /\ Len(PageRequests) <= Len(ScanRequests)
    /\ PageRequests = SubSeq(ScanRequests, 1, Len(PageRequests))
    /\ fstate = "done" =>
            /\ PageRequests = ScanRequests
            /\ Len(responses) = Len(ScanRequests)
    /\ (fstate = "fetch_and_apply" /\ Len(responses) < MaxPages) =>
            Len(PageRequests) = Len(responses) + 1
    /\ \A k \in 1..Len(progress) :
            /\ progress[k].of = doc_count
            /\ progress[k].total = Len(BatchesUpTo(k))
            /\ progress[k].iteration = k

\* a scan of three pages ended although the probe had answered a count of 0
C12_Witness ==
    /\ fstate = "done"
    /\ stored = 4
    /\ doc_count = 0
    /\ Len(PageRequests) = 3
    /\ Len(handled) = 4

(***************************************************************************)
(* Claims about the loop of main (checked under Spec)                      *)
(***************************************************************************)
\* the loop has been entered
InLoop == pc \in {"for", "update_document"} \/ (pc = "returned" /\ di > 0)

\* the documents the loop has taken so far, in order
Taken == IF pc = "update_document" THEN 1..di ELSE 1..(di - 1)

\* what rename_nested_field made of document i
Renamed(i) == rename_nested_field(documents[i], Split(old_field), new_field).renamed
Mutated(i) == rename_nested_field(documents[i], Split(old_field), new_field).doc

\* the mutated document still carries the strings _id and _rev
Sendable(i) == /\ AsStr(JsonIndex(Mutated(i), kid)) # NoneStr
               /\ AsStr(JsonIndex(Mutated(i), krev)) # NoneStr

\* how many of the documents 1..i satisfy P
CountUpTo(i, P(_)) == Cardinality({j \in 1..i : P(j)})

Lines(ev) == {k \in DOMAIN out : out[k].ev = ev}
Failed(k) == ~updates[k].result.ok

\* C13: with dry-run off, every document the loop has taken and renamed went
\* to update_document exactly once whatever happened to the writes of the
\* others: its PUT is in the log (one per document, in document order) unless
\* update_document refused it before sending, every failed update is printed
\* as an error for its document, and after a failure the loop goes on with
\* the next document.
C13_UpdateFailureIsolation ==
    (InLoop /\ ~dry_run) =>
        LET Sent(i) == Renamed(i) /\ Sendable(i)
            Refused(i) == Renamed(i) /\ ~Sendable(i)
        IN  /\ Len(Puts) = CountUpTo(Len(documents), LAMBDA i : i \in Taken /\ Sent(i))
            /\ \A i \in Taken : Sent(i) =>
                    LET put == Puts[CountUpTo(i, Sent)]
                    IN  /\ put.id = AsStr(JsonIndex(documents[i], kid))
                        /\ put.body = Mutated(i)
            /\ \A i \in Taken : Refused(i) =>
                    \E k \in DOMAIN updates : updates[k].di = i /\ Failed(k)
            /\ \A k \in DOMAIN updates :
                    /\ updates[k].di \in Taken /\ Renamed(updates[k].di)
                    /\ \A l \in DOMAIN updates : k < l => updates[k].di < updates[l].di
            /\ Cardinality(Lines("error_update"))
                    = Cardinality({k \in DOMAIN updates : Failed(k)})
            /\ \A k \in DOMAIN updates : Failed(k) =>
                    Line("error_update", PrintedId(documents[updates[k].di]))
                        \in {out[l] : l \in DOMAIN out}
            /\ Last(out).ev = "error_update" =>
                    /\ pc = "for"
                    /\ di = Last(updates).di + 1
                    /\ ENABLED Next

\* the write of the first document was answered with a conflict and the write
\* of the second has been sent
C13_Witness ==
    /\ pc = "update_document"
    /\ di = 2
    /\ Len(updates) = 1
    /\ updates[1].outcome = "409"
    /\ Len(Puts) = 2
    /\ Puts[1].id # Puts[2].id

\* C14: in dry-run mode no PUT is ever sent, however many documents hold the
\* field: the requests of the run are the two GETs at most, update_document
\* is never called, and every renamed document got its "would have been
\* updated" line instead.
C14_DryRunNoWrites ==
    dry_run =>
        /\ Puts = <<>>
        /\ Len(net) <= 2
        /\ \A k \in DOMAIN net : net[k].method = "GET"
        /\ updates = <<>>
        /\ pc # "update_document"
        /\ InLoop =>
               /\ Cardinality(Lines("dry_run")) = CountUpTo(di - 1, Renamed)
               /\ Cardinality(Lines("renamed")) = CountUpTo(di - 1, Renamed)
               /\ Lines("updated") = {} /\ Lines("error_update") = {}

\* a dry run over two documents that both hold the field has ended
C14_Witness ==
    /\ dry_run
    /\ pc = "returned"
    /\ Len(documents) = 2
    /\ Renamed(1) /\ Renamed(2)
    /\ Cardinality(Lines("dry_run")) = 2
    /\ Last(out) = Line("completed", NoneStr)

\* C15: a document for which rename_nested_field returned false is printed
\* as "not found" and never goes to update_document: no PUT carries its id,
\* there are as many "not found" lines as such documents, and no line says
\* it was renamed or updated.
C15_NotFoundNeverUpdated ==
    InLoop =>
        /\ \A i \in Taken : ~Renamed(i) =>
               LET id == AsStr(JsonIndex(documents[i], kid)) IN
               /\ Line("not_found", PrintedId(documents[i])) \in {out[l] : l \in DOMAIN out}
               /\ \A k \in DOMAIN Puts : Puts[k].id # id
               /\ \A k \in DOMAIN updates : updates[k].di # i
               /\ \A l \in DOMAIN out :
                      out[l].id = PrintedId(documents[i]) => out[l].ev = "not_found"
        /\ Cardinality(Lines("not_found")) = CountUpTo(di - 1, LAMBDA i : ~Renamed(i))
        /\ Len(Puts) <= CountUpTo(Len(documents), LAMBDA i : i \in Taken /\ Renamed(i))

\* a run with dry-run off ended after one document was renamed and written
\* and another did not hold the field
C15_Witness ==
    /\ ~dry_run
    /\ pc = "returned"
    /\ Len(documents) = 2
    /\ Renamed(1) /\ ~Renamed(2)
    /\ Len(Puts) = 1
    /\ Last(out) = Line("completed", NoneStr)

\* the document carried the strings _id and _rev when it was read
HadIdAndRev(i) == /\ AsStr(JsonIndex(documents[i], kid)) # NoneStr
                  /\ AsStr(JsonIndex(documents[i], krev)) # NoneStr

\* the write of document i: the If-Match is the _rev it was read with, the
\* body is the whole mutated document
IsWriteOf(put, i) ==
    /\ put.method = "PUT"
    /\ put.id = AsStr(JsonIndex(documents[i], kid))
    /\ put.if_match = AsStr(JsonIndex(documents[i], krev))
    /\ put.body = Mutated(i)

\* C16: with dry-run off, every document the loop has taken and renamed,
\* whatever the renamed field, has exactly one PUT in the log, with the
\* revision it was read with as If-Match and the mutated document as body.
C16_ExactlyOneConditionalWrite ==
    (InLoop /\ ~dry_run) =>
        LET Due(i) == i \in Taken /\ Renamed(i) /\ HadIdAndRev(i) IN
        /\ Len(Puts) = CountUpTo(Len(documents), Due)
        /\ \A i \in Taken : Due(i) => IsWriteOf(Puts[CountUpTo(i, Due)], i)

\* C16 for the runs in which the renamed field is neither _id nor _rev
C16_WriteWhenIdAndRevKept ==
    (Split(old_field)[1] \notin {kid, krev} /\ NewLeaf \notin {kid, krev})
        => C16_ExactlyOneConditionalWrite

\* an update_document call has sent its PUT and has not returned
UpdateInFlight == pc = "update_document"

\* C17: the driver does not wait for the update of a document before it
\* handles the next one: while an update is in flight and documents are
\* left, the loop can take the next document.
C17_DriverDoesNotWait ==
    (UpdateInFlight /\ di < Len(documents)) =>
        ENABLED (/\ di <= Len(documents)
                 /\ di' = di + 1
                 /\ updates' = updates
                 /\ Next)

\* the completion marker is the last line, every document was taken, and
\* every document has its outcome line
Completed ==
    /\ pc = "returned"
    /\ Last(out) = Line("completed", NoneStr)
    /\ di = Len(documents) + 1
    /\ Cardinality(Lines("completed")) = 1
    /\ Cardinality(Lines("not_found")) + Cardinality(Lines("dry_run"))
         + Cardinality(Lines("updated")) + Cardinality(Lines("error_update"))
            = Len(documents)

\* C18 (under SpecLive): once validation, the probe and the fetch have
\* succeeded, the run comes to print the completion marker, as its last
\* line and after every document was handled, whatever the answers to the
\* writes were; and the marker is never printed earlier.
C18_CompletionMarker ==
    /\ [](InLoop => <>Completed)
    /\ [](Lines("completed") # {} => Completed)

\* a run ended with the marker after the writes of both documents had failed
C18_Witness ==
    /\ Completed
    /\ Len(documents) = 2
    /\ Len(updates) = 2
    /\ Failed(1) /\ Failed(2)
    /\ updates[1].outcome = "409" /\ updates[2].outcome = "send_error"

(***************************************************************************)
(* The metadata probe (checked under SpecDrivers)                          *)
(***************************************************************************)
HasKey(v, k) == v.kind = "obj" /\ k \in DOMAIN v.val

\* the value of props.partitioned when the body has it, FALSE when absent
PropsPartitionedOrFalse(body) ==
    IF HasKey(body, kprops) /\ HasKey(body.val[kprops], kpartitioned)
    THEN body.val[kprops].val[kpartitioned].val
    ELSE FALSE

\* the value of doc_count when the body has it, 0 when absent
DocCountOrZero(body) ==
    IF HasKey(body, kdoc_count) THEN body.val[kdoc_count].val ELSE 0

ProbeAnswered == metadata # <<>>

\* C19: once the probe was answered with status 200 and a JSON body, it has
\* not failed whatever attributes the body lacks, the partitioned flag the
\* run goes on with is props.partitioned when the body has it and false
\* otherwise, and the count is doc_count when the body has it and 0 otherwise.
C19_ProbeDefaults ==
    ProbeAnswered =>
        /\ fstate # "idle" =>
               /\ Len(requests) >= 2
               /\ is_partitioned = PropsPartitionedOrFalse(metadata)
               /\ doc_count = DocCountOrZero(metadata)
        /\ pc # "idle" =>
               /\ Len(net) >= 2
               /\ Lines("error_partitioned") = {}
               /\ net[2] = GetAllDocs(PropsPartitionedOrFalse(metadata))
               /\ Line(IF PropsPartitionedOrFalse(metadata)
                       THEN "partitioned" ELSE "not_partitioned", NoneStr)
                      \in {out[l] : l \in DOMAIN out}

\* C19 for the probe of FetchDocument (get_metadata) alone
C19_GetMetadataDefaults ==
    pc = "idle" => C19_ProbeDefaults

(***************************************************************************)
(* The Result of update_document (checked under Spec)                      *)
(***************************************************************************)
\* the class of an answer to the PUT
ClassOf(o) ==
    CASE o \in {"200", "201"} -> "Success"
      [] o = "409" -> "UpdateConflict"
      [] o = "send_error" -> "TransportError"
      [] OTHER -> "UpdateRejected"

\* what the caller can match on in a Result<(), String> short of reading the
\* text of the message: the variant
Variant(result) == IF result.ok THEN "Ok" ELSE "Err"

Answered == {k \in DOMAIN updates : updates[k].outcome # "not_sent"}

\* C20: update_document returns success on 200/201, and the results of a
\* conflict, of another non-success status and of a transport failure are
\* three outcomes the caller can tell apart.
C20_FailuresClassified ==
    /\ \A k \in Answered :
           updates[k].result.ok <=> ClassOf(updates[k].outcome) = "Success"
    /\ \A k, l \in Answered :
           ClassOf(updates[k].outcome) # ClassOf(updates[l].outcome)
               => Variant(updates[k].result) # Variant(updates[l].result)

\* what does hold of update_document: Ok(()) exactly on 200/201, else an Err
\* whose text is the transport error or names the document and the status
C20_OkIffSuccessStatus ==
    \A k \in Answered :
        LET o == updates[k].outcome
            result == updates[k].result
        IN  /\ result.ok <=> o \in {"200", "201"}
            /\ (o \notin {"200", "201", "send_error"}) =>
                   result.err = <<"Failed to update document",
                                  AsStr(JsonIndex(documents[updates[k].di], kid)),
                                  "Status code", o>>

(***************************************************************************)
(* The exit status (checked under Spec)                                    *)
(***************************************************************************)
\* C21: when path validation has rejected the pair, the process has printed
\* the error and ends with an exit status other than 0.
C21_NonZeroExitOnPathError ==
    (args_result \in {"err_depth", "err_parent"} /\ pc = "returned") =>
        /\ out = <<Line("error_args", NoneStr)>>
        /\ exit_status # 0

\* what does hold: the error is printed and main returns at once
C21_ErrorPrintedOnPathError ==
    (args_result \in {"err_depth", "err_parent"} /\ pc # "start") =>
        /\ out = <<Line("error_args", NoneStr)>>
        /\ pc = "returned"

(***************************************************************************)
(* The handler and the progress count (checked under SpecFetch)            *)
(***************************************************************************)
\* C22: the handler has been called exactly with the documents of the
\* batches answered so far, batch after batch and in the order of each batch
\* (with the store of the model: documents 1, 2, 3, ... with none skipped,
\* repeated or out of place), there is one progress line per page, the
\* count of line k is the number of handler calls made up to page k, and the
\* counts never decrease.
C22_HandlerOncePerDocument ==
    /\ handled = BatchesUpTo(Len(responses))
    /\ \A i \in DOMAIN handled : handled[i] = i
    /\ Len(handled) <= stored
    /\ Len(progress) = Len(responses)
    /\ \A k \in DOMAIN progress :
           /\ progress[k].total = Len(BatchesUpTo(k))
           /\ k > 1 => progress[k - 1].total <= progress[k].total
    /\ progress # <<>> => Last(progress).total = Len(handled)
    /\ total_record = Len(handled)

\* a scan of four documents by pages of three: the handler saw 1, 2, 3, 4 and
\* the progress lines counted 3 and then 4
C22_Witness ==
    /\ fstate = "done"
    /\ limit = Usize(0, 3)
    /\ handled = <<1, 2, 3, 4>>
    /\ Len(progress) = 2
    /\ progress[1].total = 3 /\ progress[2].total = 4

(***************************************************************************)
(* The segments of an accepted pair (checked under SpecArgs)               *)
(***************************************************************************)
NoEmptySegment(str) == \A i \in DOMAIN Split(str) : Split(str)[i] # <<>>

\* C23: every pair parse_args accepts is made of non-empty segments only: a
\* string whose split on '.' has an empty segment ("", "a..b", ".a", "a.")
\* is never part of an accepted pair.
C23_AcceptedSegmentsNonEmpty ==
    args_result = "ok" => NoEmptySegment(old_field) /\ NoEmptySegment(new_field)

\* what does hold: an accepted pair has as many segments on both sides, at
\* least one, empty ones counted
C23_AcceptedSameSegmentCount ==
    args_result = "ok" =>
        /\ Len(Split(old_field)) = Len(Split(new_field))
        /\ Len(Split(old_field)) >= 1

(***************************************************************************)
(* Termination of the scan (checked under SpecFetchLive)                   *)
(***************************************************************************)
\* a request or an answer was lost to a failure of the transport or of the
\* store (a page size the request body can hold is never refused)
StoreFailed == fstate = "panicked" /\ AsI32(limit) >= 0

\* the scan comes to Done unless the store or the transport failed
EventuallyDone == <>(fstate = "done" \/ StoreFailed)

\* an answer after which the scan goes on with another page request has
\* handed at least one more document of the table to the handler
AnswerAdvances ==
    (fstate = "fetch_and_apply" /\ fstate' = "fetch_and_apply") =>
        Len(handled') > Len(handled)

\* C24: for every page size, 0 included, a scan of the static table comes
\* to Done unless the store or the transport failed, and after finitely
\* many page requests: every answer that does not end the scan leaves fewer
\* documents of the finite table to read.
C24_ScanReachesDone ==
    /\ EventuallyDone
    /\ [][AnswerAdvances]_vars

\* what does hold: C24 for the page sizes whose request body carries a limit
\* of at least 1
C24_ScanReachesDonePositiveLimit ==
    /\ AsI32(limit) >= 1 => EventuallyDone
    /\ [][AsI32(limit) >= 1 => AnswerAdvances]_vars

\* why page size 0 never ends: every answer is empty, an empty batch is not
\* shorter than 0, and from the second on every request is the one before
C24_LimitZeroRepeats ==
    limit = Usize(0, 0) =>
        /\ fstate # "done"
        /\ \A k \in DOMAIN responses : BatchSize(k) = 0
        /\ \A k \in 2..(Len(PageRequests) - 1) : PageRequests[k + 1] = PageRequests[k]
        /\ (fstate = "fetch_and_apply" /\ Len(responses) < MaxPages) => ENABLED NextFetch

(***************************************************************************)
(* The limit of the request body (checked under SpecFetch)                 *)
(***************************************************************************)
\* the integer n is the value of the usize u
IsValueOf(n, u) == u.hi = 0 /\ n = u.lo

\* C25: the limit every page request carries is the configured page size,
\* the number the termination rule compares the batch size with.
C25_RequestLimitIsPageSize ==
    \A k \in DOMAIN PageRequests : IsValueOf(PageRequests[k].limit, limit)

\* what does hold: C25 for the page sizes below 2^31
C25_RequestLimitWithinI32 ==
    limit.hi = 0 => C25_RequestLimitIsPageSize
====
